---- MODULE Spec2Model ----
(***************************************************************************)
(* Model of sample_apps/simple_app_under_islet/islet_example_app.cc:       *)
(* main() (the operation dispatcher) and the two session handlers          *)
(* client_application() and server_application().                          *)
(*                                                                         *)
(* One process run is one behaviour.  FLAGS_operation is fixed in Init.    *)
(* Every call main makes on a collaborator (cc_trust_manager,              *)
(* secure_authenticated_channel, server_dispatch) is appended to `trace`   *)
(* together with its outcome, so call counts and call order are derived    *)
(* from the trace.                                                         *)
(***************************************************************************)
EXTENDS Integers, Sequences, FiniteSets, TLC

VARIABLES
  operation,                     \* FLAGS_operation
  pc,                            \* position in main / the session handlers
  ret,                           \* main's local `ret`
  exit_code,                     \* <<>> while running, <<code>> once main returned
  trust_mgr,                     \* the global pointer: "null", "allocated", "deleted"
  cc_auth_key_initialized_,      \* trust_mgr->cc_auth_key_initialized_
  cc_policy_info_initialized_,   \* trust_mgr->cc_policy_info_initialized_
  primary_admissions_cert_valid_,\* trust_mgr->primary_admissions_cert_valid_
  trace,                         \* sequence of [call, ok] records
  channel,                       \* client channel: "unopened", "open", "closed"
  wrote,                         \* value returned by the client's channel.write
  n,                             \* client_application's local `n`
  out,                           \* client_application's local `out`
  client_result,                 \* <<>> or <<b>>: value returned by client_application
  sessions,                      \* connections accepted by server_dispatch so far
  nc,                            \* server channel of the session in progress
  sent                           \* bytes server_application last handed to channel.write

flags == <<cc_auth_key_initialized_, cc_policy_info_initialized_,
           primary_admissions_cert_valid_>>
clientvars == <<channel, wrote, n, out, client_result>>
servervars == <<sessions, nc, sent>>
vars == <<operation, pc, ret, exit_code, trust_mgr, flags, trace,
          clientvars, servervars>>

----------------------------------------------------------------------------
(* Bounds of the model *)

\* number of bytes a peer may send beyond a prefix of the expected reply
MaxExtra == 2
\* number of connections the listen loop accepts before the model stops
MaxSessions == 2

----------------------------------------------------------------------------
(* Strings are sequences of character codes. *)

\* "Hi from your secret server\n"
ServerReply == <<72, 105, 32, 102, 114, 111, 109, 32, 121, 111, 117, 114, 32,
                 115, 101, 99, 114, 101, 116, 32, 115, 101, 114, 118, 101,
                 114, 10>>

\* "Hi from your secret client\n"
ClientMsg == <<72, 105, 32, 102, 114, 111, 109, 32, 121, 111, 117, 114, 32,
               115, 101, 99, 114, 101, 116, 32, 99, 108, 105, 101, 110,
               116, 10>>

\* bytes a peer may send besides the expected ones: NUL, '\n', 'X'
Alphabet == {0, 10, 88}

SeqsUpTo(S, k) == UNION {[1..m -> S] : m \in 0..k}

\* what channel.read can leave in `out`: a prefix of the expected reply
\* followed by up to MaxExtra arbitrary bytes
Contents == {SubSeq(ServerReply, 1, k) \o e :
               k \in 0..Len(ServerReply), e \in SeqsUpTo(Alphabet, MaxExtra)}

\* values of --operation: the empty default, the four strings main compares
\* against, and strings main does not compare against
Operations == {"", "cold-init", "get-certified", "run-app-as-client",
               "run-app-as-server", "run-as-client", "run-as-server",
               "warm-restart"}

----------------------------------------------------------------------------
(* Helpers on the trace *)

Event(c, ok) == [call |-> c, ok |-> ok]

Count(c) == Cardinality({i \in DOMAIN trace : trace[i].call = c})

Called(c) == \E i \in DOMAIN trace : trace[i].call = c

Failed(c) == \E i \in DOMAIN trace : trace[i].call = c /\ ~trace[i].ok

Succeeded(c) == \E i \in DOMAIN trace : trace[i].call = c /\ trace[i].ok

\* every occurrence of a precedes every occurrence of b
Before(a, b) ==
  \A i, j \in DOMAIN trace :
    (trace[i].call = a /\ trace[j].call = b) => i < j

\* every occurrence of b is preceded by some occurrence of a
Preceded(a, b) ==
  \A j \in DOMAIN trace :
    trace[j].call = b => \E i \in 1..(j - 1) : trace[i].call = a

Exited == pc = "exited"

ExitCode == exit_code[1]

----------------------------------------------------------------------------
(* Init: state at entry of main, after gflags parsed the command line *)

Init ==
  /\ operation \in Operations
  /\ pc = "main"
  /\ ret = 0
  /\ exit_code = <<>>
  /\ trust_mgr = "null"
  /\ cc_auth_key_initialized_ = FALSE
  /\ cc_policy_info_initialized_ = FALSE
  /\ primary_admissions_cert_valid_ = FALSE
  /\ trace = <<>>
  /\ channel = "unopened"
  /\ wrote = 0
  /\ n = 0
  /\ out = <<>>
  /\ client_result = <<>>
  /\ sessions = 0
  /\ nc = "none"
  /\ sent = <<>>

----------------------------------------------------------------------------
(* main: start-up *)

\* `return code;` : main returns without passing through `done`
Return(code) ==
  /\ pc' = "exited"
  /\ exit_code' = <<code>>

\* `ret = 1; goto done;`
FailAndGotoDone ==
  /\ ret' = 1
  /\ pc' = "done"

\* if (FLAGS_operation == "") { print usage; return 0; }
Usage ==
  /\ pc = "main"
  /\ operation = ""
  /\ Return(0)
  /\ UNCHANGED <<operation, ret, trust_mgr, flags, trace, clientvars, servervars>>

\* trust_mgr = new cc_trust_manager(...); operator new throws rather than
\* returning nullptr, so the nullptr branch is never taken
NewTrustManager ==
  /\ pc = "main"
  /\ operation # ""
  /\ trust_mgr' = "allocated"
  /\ pc' = "init_policy_key"
  /\ UNCHANGED <<operation, ret, exit_code, flags, trace, clientvars, servervars>>

\* if (!trust_mgr->init_policy_key(...)) return 1;
InitPolicyKey ==
  /\ pc = "init_policy_key"
  /\ \E ok \in BOOLEAN :
       /\ trace' = Append(trace, Event("init_policy_key", ok))
       /\ IF ok
            THEN pc' = "initialize_enclave" /\ UNCHANGED exit_code
            ELSE Return(1)
  /\ UNCHANGED <<operation, ret, trust_mgr, flags, clientvars, servervars>>

\* InitializeEnclave with the returned value dropped
InitializeEnclaveUnchecked ==
  /\ pc = "initialize_enclave"
  /\ \E ok \in BOOLEAN :
       trace' = Append(trace, Event("initialize_enclave", ok))
  /\ pc' = "dispatch"
  /\ UNCHANGED <<operation, ret, exit_code, trust_mgr, flags, clientvars, servervars>>

\* if (!trust_mgr->initialize_enclave(n, params)) return 1;
InitializeEnclave ==
  /\ pc = "initialize_enclave"
  /\ \E ok \in BOOLEAN :
       /\ trace' = Append(trace, Event("initialize_enclave", ok))
       /\ IF ok
            THEN pc' = "dispatch" /\ UNCHANGED exit_code
            ELSE Return(1)
  /\ UNCHANGED <<operation, ret, trust_mgr, flags, clientvars, servervars>>

----------------------------------------------------------------------------
(* main: the if / else-if chain on FLAGS_operation *)

\* Branch with the final else missing: an unmatched string runs the first
\* branch of the chain
BranchWithoutElse(op) ==
  IF op = "get-certified" THEN "get_certified"
  ELSE IF op = "run-app-as-client" THEN "run_app_as_client"
  ELSE IF op = "run-app-as-server" THEN "run_app_as_server"
  ELSE "cold_init"

\* Branch with the two run branches exchanged
BranchRolesSwapped(op) ==
  IF op = "cold-init" THEN "cold_init"
  ELSE IF op = "get-certified" THEN "get_certified"
  ELSE IF op = "run-app-as-client" THEN "run_app_as_server"
  ELSE IF op = "run-app-as-server" THEN "run_app_as_client"
  ELSE "unknown_operation"

\* Branch comparing against run-as-client / run-as-server
BranchShortNames(op) ==
  IF op = "cold-init" THEN "cold_init"
  ELSE IF op = "get-certified" THEN "get_certified"
  ELSE IF op = "run-as-client" THEN "run_app_as_client"
  ELSE IF op = "run-as-server" THEN "run_app_as_server"
  ELSE "unknown_operation"

\* Branch with the cold-init comparison leading into the server branch
BranchColdInitAsServer(op) ==
  IF op = "cold-init" THEN "run_app_as_server"
  ELSE IF op = "get-certified" THEN "get_certified"
  ELSE IF op = "run-app-as-client" THEN "run_app_as_client"
  ELSE IF op = "run-app-as-server" THEN "run_app_as_server"
  ELSE "unknown_operation"

Branch(op) ==
  IF op = "cold-init" THEN "cold_init"
  ELSE IF op = "get-certified" THEN "get_certified"
  ELSE IF op = "run-app-as-client" THEN "run_app_as_client"
  ELSE IF op = "run-app-as-server" THEN "run_app_as_server"
  ELSE "unknown_operation"

\* int ret = 0; then the chain selects one branch
Dispatch ==
  /\ pc = "dispatch"
  /\ ret' = 0
  /\ pc' = Branch(operation)
  /\ UNCHANGED <<operation, exit_code, trust_mgr, flags, trace, clientvars, servervars>>

\* else { printf("... Unknown operation\n"); }  -- ret is left as it is
UnknownOperation ==
  /\ pc = "unknown_operation"
  /\ pc' = "done"
  /\ UNCHANGED <<operation, ret, exit_code, trust_mgr, flags, trace, clientvars, servervars>>

\* ColdInit that tries a second time after a first failure
ColdInitRetryOnce ==
  /\ pc = "cold_init"
  /\ \E ok \in BOOLEAN :
       /\ trace' = Append(trace, Event("cold_init", ok))
       /\ IF ok
            THEN pc' = "done" /\ UNCHANGED ret
            ELSE IF Count("cold_init") = 0
                   THEN UNCHANGED <<pc, ret>>
                   ELSE FailAndGotoDone
  /\ UNCHANGED <<operation, exit_code, trust_mgr, flags, clientvars, servervars>>

\* if (!trust_mgr->cold_init(...)) { ret = 1; goto done; }
ColdInit ==
  /\ pc = "cold_init"
  /\ \E ok \in BOOLEAN :
       /\ trace' = Append(trace, Event("cold_init", ok))
       /\ IF ok
            THEN pc' = "done" /\ UNCHANGED ret
            ELSE FailAndGotoDone
  /\ UNCHANGED <<operation, exit_code, trust_mgr, flags, clientvars, servervars>>

\* WarmRestart with the returned value dropped: the flow goes on after a
\* failed warm_restart
WarmRestartUnchecked(next) ==
  \E ok \in BOOLEAN :
    /\ trace' = Append(trace, Event("warm_restart", ok))
    /\ IF ok
         THEN /\ cc_auth_key_initialized_' \in BOOLEAN
              /\ cc_policy_info_initialized_' \in BOOLEAN
              /\ primary_admissions_cert_valid_' \in BOOLEAN
         ELSE UNCHANGED flags
    /\ pc' = next
    /\ UNCHANGED ret

\* if (!trust_mgr->warm_restart()) { ret = 1; goto done; }
\* A successful warm_restart reloads the trust state: the three flags take
\* whatever values the policy store holds.
WarmRestart(next) ==
  \E ok \in BOOLEAN :
    /\ trace' = Append(trace, Event("warm_restart", ok))
    /\ IF ok
         THEN /\ cc_auth_key_initialized_' \in BOOLEAN
              /\ cc_policy_info_initialized_' \in BOOLEAN
              /\ primary_admissions_cert_valid_' \in BOOLEAN
              /\ pc' = next
              /\ UNCHANGED ret
         ELSE /\ FailAndGotoDone
              /\ UNCHANGED flags

GetCertifiedWarmRestart ==
  /\ pc = "get_certified"
  /\ WarmRestart("certify_me")
  /\ UNCHANGED <<operation, exit_code, trust_mgr, clientvars, servervars>>

\* CertifyMe with the returned value dropped
CertifyMeUnchecked ==
  /\ pc = "certify_me"
  /\ \E ok \in BOOLEAN :
       /\ trace' = Append(trace, Event("certify_me", ok))
       /\ primary_admissions_cert_valid_' = (primary_admissions_cert_valid_ \/ ok)
  /\ pc' = "done"
  /\ UNCHANGED <<operation, ret, exit_code, trust_mgr, cc_auth_key_initialized_,
                 cc_policy_info_initialized_, clientvars, servervars>>

\* if (!trust_mgr->certify_me()) { ret = 1; goto done; }
CertifyMe ==
  /\ pc = "certify_me"
  /\ \E ok \in BOOLEAN :
       /\ trace' = Append(trace, Event("certify_me", ok))
       /\ IF ok
            THEN /\ primary_admissions_cert_valid_' = TRUE
                 /\ pc' = "done"
                 /\ UNCHANGED ret
            ELSE /\ FailAndGotoDone
                 /\ UNCHANGED primary_admissions_cert_valid_
  /\ UNCHANGED <<operation, exit_code, trust_mgr, cc_auth_key_initialized_,
                 cc_policy_info_initialized_, clientvars, servervars>>

----------------------------------------------------------------------------
(* main: run-app-as-client branch *)

\* secure_authenticated_channel channel(my_role); then warm_restart
ClientWarmRestart ==
  /\ pc = "run_app_as_client"
  /\ WarmRestart("client_check_trust_data")
  /\ UNCHANGED <<operation, exit_code, trust_mgr, clientvars, servervars>>

\* TrustDataInitialized with the policy flag forgotten
TrustDataInitializedKeysOnly(auth, policy) == auth

\* the condition under which main does NOT take the "trust data not
\* initialized" exit:
\*   !(!cc_auth_key_initialized_ || !cc_policy_info_initialized_)
TrustDataInitialized(auth, policy) == ~(~auth \/ ~policy)

\* the flag reads of the condition above; || short-circuits, so the policy
\* flag is read only when the key flag is true
TrustDataReads(auth, policy) ==
  IF auth
    THEN <<Event("read cc_auth_key_initialized_", auth),
           Event("read cc_policy_info_initialized_", policy)>>
    ELSE <<Event("read cc_auth_key_initialized_", auth)>>

\* if (!cc_auth_key_initialized_ || !cc_policy_info_initialized_)
\*   { ret = 1; goto done; }
ClientCheckTrustData ==
  /\ pc = "client_check_trust_data"
  /\ trace' = trace \o TrustDataReads(cc_auth_key_initialized_,
                                      cc_policy_info_initialized_)
  /\ IF TrustDataInitialized(cc_auth_key_initialized_,
                             cc_policy_info_initialized_)
       THEN pc' = "client_check_admissions_cert" /\ UNCHANGED ret
       ELSE FailAndGotoDone
  /\ UNCHANGED <<operation, exit_code, trust_mgr, flags, clientvars, servervars>>

\* AdmissionsCertValid with the test dropped
AdmissionsCertUnchecked(valid) == TRUE

\* the condition under which main does NOT take the "primary admissions
\* cert not valid" exit: !(!primary_admissions_cert_valid_)
AdmissionsCertValid(valid) == ~(~valid)

\* if (!primary_admissions_cert_valid_) { ret = 1; goto done; }
ClientCheckAdmissionsCert ==
  /\ pc = "client_check_admissions_cert"
  /\ trace' = Append(trace, Event("read primary_admissions_cert_valid_",
                                  primary_admissions_cert_valid_))
  /\ IF AdmissionsCertValid(primary_admissions_cert_valid_)
       THEN pc' = "init_client_ssl" /\ UNCHANGED ret
       ELSE FailAndGotoDone
  /\ UNCHANGED <<operation, exit_code, trust_mgr, flags, clientvars, servervars>>

\* InitClientSsl with the returned value dropped
InitClientSslUnchecked ==
  /\ pc = "init_client_ssl"
  /\ \E ok \in BOOLEAN :
       /\ trace' = Append(trace, Event("init_client_ssl", ok))
       /\ channel' = IF ok THEN "open" ELSE channel
  /\ pc' = "client_application"
  /\ UNCHANGED <<operation, ret, exit_code, trust_mgr, flags, wrote, n, out,
                 client_result, servervars>>

\* if (!channel.init_client_ssl(...)) { ret = 1; goto done; }
InitClientSsl ==
  /\ pc = "init_client_ssl"
  /\ \E ok \in BOOLEAN :
       /\ trace' = Append(trace, Event("init_client_ssl", ok))
       /\ IF ok
            THEN /\ channel' = "open"
                 /\ pc' = "client_application"
                 /\ UNCHANGED ret
            ELSE /\ FailAndGotoDone
                 /\ UNCHANGED channel
  /\ UNCHANGED <<operation, exit_code, trust_mgr, flags, wrote, n, out,
                 client_result, servervars>>

----------------------------------------------------------------------------
(* client_application *)

\* c_str(): the bytes before the first NUL
RECURSIVE CStr(_)
CStr(s) ==
  IF s = <<>> \/ Head(s) = 0 THEN <<>> ELSE <<Head(s)>> \o CStr(Tail(s))

\* strcmp(a, b) == 0 : the two C strings are equal
StrcmpEqual(a, b) == CStr(a) = CStr(b)

\* the value client_application returns:
\*   if (n < 0 || strcmp(out.c_str(), "Hi from your secret server\n") != 0)
\*     return false;
\*   return true;
ClientApplicationReturn(n_, out_) ==
  IF n_ < 0 \/ ~StrcmpEqual(out_, ServerReply) THEN FALSE ELSE TRUE

\* main calls client_application(channel); the handler prints the peer id
ClientApplication ==
  /\ pc = "client_application"
  /\ trace' = Append(trace, Event("client_application", TRUE))
  /\ pc' = "client_write"
  /\ UNCHANGED <<operation, ret, exit_code, trust_mgr, flags, clientvars, servervars>>

\* channel.write(strlen(msg), (byte *)msg);  the returned value is dropped
ClientWrite ==
  /\ pc = "client_write"
  /\ \E w \in {-1, Len(ClientMsg)} :
       /\ wrote' = w
       /\ trace' = Append(trace, Event("client.write", w >= 0))
  /\ pc' = "client_read"
  /\ UNCHANGED <<operation, ret, exit_code, trust_mgr, flags, channel, n, out,
                 client_result, servervars>>

\* ClientRead skipped when the write before it failed
ClientReadAfterGoodWrite ==
  /\ pc = "client_read"
  /\ IF wrote < 0
       THEN UNCHANGED <<out, n, trace>>
       ELSE \E c \in Contents :
              \E r \in {-1, Len(c)} :
                /\ out' = c
                /\ n' = r
                /\ trace' = Append(trace, Event("client.read", r >= 0))
  /\ pc' = "client_close"
  /\ UNCHANGED <<operation, ret, exit_code, trust_mgr, flags, channel, wrote,
                 client_result, servervars>>

\* string out; int n = channel.read(&out);
ClientRead ==
  /\ pc = "client_read"
  /\ \E c \in Contents :
       \E r \in {-1, Len(c)} :
         /\ out' = c
         /\ n' = r
         /\ trace' = Append(trace, Event("client.read", r >= 0))
  /\ pc' = "client_close"
  /\ UNCHANGED <<operation, ret, exit_code, trust_mgr, flags, channel, wrote,
                 client_result, servervars>>

\* ClientClose placed after an early return on a failed read: the channel is
\* closed only when n >= 0
ClientCloseAfterEarlyReturn ==
  /\ pc = "client_close"
  /\ IF n < 0
       THEN UNCHANGED <<channel, trace>>
       ELSE /\ channel' = "closed"
            /\ trace' = Append(trace, Event("client.close", TRUE))
  /\ pc' = "client_return"
  /\ UNCHANGED <<operation, ret, exit_code, trust_mgr, flags, wrote, n, out,
                 client_result, servervars>>

\* channel.close();
ClientClose ==
  /\ pc = "client_close"
  /\ channel' = "closed"
  /\ trace' = Append(trace, Event("client.close", TRUE))
  /\ pc' = "client_return"
  /\ UNCHANGED <<operation, ret, exit_code, trust_mgr, flags, wrote, n, out,
                 client_result, servervars>>

\* the final if / return of client_application
ClientReturn ==
  /\ pc = "client_return"
  /\ client_result' = <<ClientApplicationReturn(n, out)>>
  /\ pc' = "client_application_check"
  /\ UNCHANGED <<operation, ret, exit_code, trust_mgr, flags, trace, channel,
                 wrote, n, out, servervars>>

\* if (!client_application(channel)) { ret = 1; goto done; }
ClientApplicationCheck ==
  /\ pc = "client_application_check"
  /\ IF client_result[1]
       THEN pc' = "done" /\ UNCHANGED ret
       ELSE FailAndGotoDone
  /\ UNCHANGED <<operation, exit_code, trust_mgr, flags, trace, clientvars, servervars>>

----------------------------------------------------------------------------
(* main: run-app-as-server branch *)

ServerWarmRestart ==
  /\ pc = "run_app_as_server"
  /\ WarmRestart("server_check_admissions_cert")
  /\ UNCHANGED <<operation, exit_code, trust_mgr, clientvars, servervars>>

\* ServerCheckAdmissionsCert with the client's precondition: all three flags
ServerCheckAllFlags ==
  /\ pc = "server_check_admissions_cert"
  /\ trace' = Append(trace, Event("read primary_admissions_cert_valid_",
                                  primary_admissions_cert_valid_))
  /\ IF /\ TrustDataInitialized(cc_auth_key_initialized_,
                                cc_policy_info_initialized_)
        /\ AdmissionsCertValid(primary_admissions_cert_valid_)
       THEN pc' = "server_dispatch" /\ UNCHANGED ret
       ELSE FailAndGotoDone
  /\ UNCHANGED <<operation, exit_code, trust_mgr, flags, clientvars, servervars>>

\* if (!primary_admissions_cert_valid_) { ret = 1; goto done; }
ServerCheckAdmissionsCert ==
  /\ pc = "server_check_admissions_cert"
  /\ trace' = Append(trace, Event("read primary_admissions_cert_valid_",
                                  primary_admissions_cert_valid_))
  /\ IF AdmissionsCertValid(primary_admissions_cert_valid_)
       THEN pc' = "server_dispatch" /\ UNCHANGED ret
       ELSE FailAndGotoDone
  /\ UNCHANGED <<operation, exit_code, trust_mgr, flags, clientvars, servervars>>

\* if (!server_dispatch(..., server_application)) { ret = 1; goto done; }
\* server_dispatch either fails to set up the listening socket and returns
\* false, or enters its accept loop and does not return.
ServerDispatch ==
  /\ pc = "server_dispatch"
  /\ \E ok \in BOOLEAN :
       /\ trace' = Append(trace, Event("server_dispatch", ok))
       /\ IF ok
            THEN pc' = "listening" /\ UNCHANGED ret
            ELSE FailAndGotoDone
  /\ UNCHANGED <<operation, exit_code, trust_mgr, flags, clientvars, servervars>>

\* the accept loop takes one connection and calls server_application on its
\* channel
Accept ==
  /\ pc = "listening"
  /\ sessions < MaxSessions
  /\ sessions' = sessions + 1
  /\ nc' = "open"
  /\ trace' = Append(trace, Event("server_application", TRUE))
  /\ pc' = "server_read"
  /\ UNCHANGED <<operation, ret, exit_code, trust_mgr, flags, clientvars, sent>>

----------------------------------------------------------------------------
(* server_application *)

\* ServerRead that gives up on a failed read: the handler ends the process
\* with exit(1)
ServerReadExitOnFailure ==
  /\ pc = "server_read"
  /\ \E ok \in BOOLEAN :
       /\ trace' = Append(trace, Event("server.read", ok))
       /\ IF ok
            THEN pc' = "server_write" /\ UNCHANGED exit_code
            ELSE Return(1)
  /\ UNCHANGED <<operation, ret, trust_mgr, flags, clientvars, servervars>>

\* string out; int n = channel.read(&out);  n is not looked at
ServerRead ==
  /\ pc = "server_read"
  /\ \E ok \in BOOLEAN :
       trace' = Append(trace, Event("server.read", ok))
  /\ pc' = "server_write"
  /\ UNCHANGED <<operation, ret, exit_code, trust_mgr, flags, clientvars, servervars>>

\* ServerWrite guarded by the result of the read: no reply after a failed
\* read
ServerWriteAfterGoodRead ==
  /\ pc = "server_write"
  /\ IF trace[Len(trace)].ok
       THEN /\ sent' = ServerReply
            /\ \E ok \in BOOLEAN :
                 trace' = Append(trace, Event("server.write", ok))
       ELSE UNCHANGED <<sent, trace>>
  /\ pc' = "server_close"
  /\ UNCHANGED <<operation, ret, exit_code, trust_mgr, flags, clientvars,
                 sessions, nc>>

\* const char *msg = "Hi from your secret server\n";
\* channel.write(strlen(msg), (byte *)msg);
ServerWrite ==
  /\ pc = "server_write"
  /\ sent' = ServerReply
  /\ \E ok \in BOOLEAN :
       trace' = Append(trace, Event("server.write", ok))
  /\ pc' = "server_close"
  /\ UNCHANGED <<operation, ret, exit_code, trust_mgr, flags, clientvars,
                 sessions, nc>>

\* channel.close(); server_application returns to the accept loop
ServerClose ==
  /\ pc = "server_close"
  /\ nc' = "closed"
  /\ trace' = Append(trace, Event("server.close", TRUE))
  /\ pc' = "listening"
  /\ UNCHANGED <<operation, ret, exit_code, trust_mgr, flags, clientvars,
                 sessions, sent>>

----------------------------------------------------------------------------
(* main: done label *)

\* done: trust_mgr->clear_sensitive_data(); delete trust_mgr; return ret;
Done ==
  /\ pc = "done"
  /\ trace' = Append(trace, Event("clear_sensitive_data", TRUE))
  /\ trust_mgr' = "deleted"
  /\ Return(ret)
  /\ UNCHANGED <<operation, ret, flags, clientvars, servervars>>

Next ==
  \/ Usage
  \/ NewTrustManager
  \/ InitPolicyKey
  \/ InitializeEnclave
  \/ Dispatch
  \/ UnknownOperation
  \/ ColdInit
  \/ GetCertifiedWarmRestart
  \/ CertifyMe
  \/ ClientWarmRestart
  \/ ClientCheckTrustData
  \/ ClientCheckAdmissionsCert
  \/ InitClientSsl
  \/ ClientApplication
  \/ ClientWrite
  \/ ClientRead
  \/ ClientClose
  \/ ClientReturn
  \/ ClientApplicationCheck
  \/ ServerWarmRestart
  \/ ServerCheckAdmissionsCert
  \/ ServerDispatch
  \/ Accept
  \/ ServerRead
  \/ ServerWrite
  \/ ServerClose
  \/ Done

Spec == Init /\ [][Next]_vars

\* The process is single-threaded and every step of main is a statement or a
\* blocking call; under the assumption that every collaborator call returns
\* (and that peers keep connecting to a listening server), a step that can
\* be taken is eventually taken.
FairSpec == Init /\ [][Next]_vars /\ WF_vars(Next)

----------------------------------------------------------------------------
(* Vocabulary of the properties *)

ClientOp == "run-app-as-client"
ServerOp == "run-app-as-server"

\* the operation strings main compares FLAGS_operation against
Recognized == {"cold-init", "get-certified", ClientOp, ServerOp}

Unrecognized == operation # "" /\ operation \notin Recognized

LifecycleAndChannelCalls ==
  {"cold_init", "warm_restart", "certify_me", "init_client_ssl",
   "server_dispatch"}

FlagReads ==
  {"read cc_auth_key_initialized_", "read cc_policy_info_initialized_",
   "read primary_admissions_cert_valid_"}

AllFlags ==
  /\ cc_auth_key_initialized_
  /\ cc_policy_info_initialized_
  /\ primary_admissions_cert_valid_

\* the selected operation ran all its steps and each of them succeeded
\* (the server flow has no such end: its listen loop does not return)
OperationSucceeded ==
  \/ operation = "cold-init" /\ Succeeded("cold_init")
  \/ operation = "get-certified" /\ Succeeded("warm_restart")
                                 /\ Succeeded("certify_me")
  \/ operation = ClientOp /\ client_result = <<TRUE>>

\* some step of the selected operation failed
StepFailed ==
  \/ \E c \in LifecycleAndChannelCalls : Failed(c)
  \/ \E i \in DOMAIN trace : trace[i].call \in FlagReads /\ ~trace[i].ok
  \/ client_result = <<FALSE>>

----------------------------------------------------------------------------
(* Properties *)

\* C1: when --operation is non-empty and not a recognized operation name,
\* main returns a non-zero exit code.
C1_UnknownOperationExitsNonZero ==
  (Exited /\ Unrecognized) => ExitCode # 0

\* C2: when --operation is unrecognized, none of cold_init, warm_restart,
\* certify_me, init_client_ssl, server_dispatch is ever invoked.
C2_UnknownOperationMakesNoCalls ==
  Unrecognized => \A c \in LifecycleAndChannelCalls : Count(c) = 0

\* an unrecognized operation went through the dispatch and reached the end
C2_Witness ==
  /\ Unrecognized
  /\ Exited
  /\ Succeeded("initialize_enclave")

\* C3: in the client and the server flow warm_restart is invoked before any
\* trust-state flag is read and before init_client_ssl / server_dispatch;
\* once warm_restart has failed, neither init_client_ssl nor server_dispatch
\* is invoked.
C3_WarmRestartFirst ==
  operation \in {ClientOp, ServerOp} =>
    /\ \A c \in FlagReads \cup {"init_client_ssl", "server_dispatch"} :
         Preceded("warm_restart", c)
    /\ (pc \notin {"main", "init_policy_key", "initialize_enclave",
                   "dispatch", "run_app_as_client", "run_app_as_server"}
        /\ Succeeded("initialize_enclave"))
         => Called("warm_restart")
    /\ Failed("warm_restart") =>
         /\ ~Called("init_client_ssl")
         /\ ~Called("server_dispatch")
         /\ \A c \in FlagReads : ~Called(c)

\* the client flow opened its channel after a successful warm_restart
C3_Witness ==
  /\ operation = ClientOp
  /\ Succeeded("warm_restart")
  /\ Called("init_client_ssl")

\* C4: in the client flow init_client_ssl is attempted only when all three
\* flags are true after warm_restart; with at least one flag false there is
\* no channel open, no read, no write, and the run fails.
C4_ClientOpensOnlyWithAllFlags ==
  operation = ClientOp =>
    /\ Called("init_client_ssl") => AllFlags
    /\ (Succeeded("warm_restart") /\ ~AllFlags) =>
         /\ ~Called("init_client_ssl")
         /\ ~Called("client_application")
         /\ ~Called("client.write")
         /\ ~Called("client.read")
         /\ Exited => ExitCode = 1

\* the client flow ended with the keys and the admission cert in place but
\* the policy not initialized
C4_Witness ==
  /\ operation = ClientOp
  /\ Succeeded("warm_restart")
  /\ cc_auth_key_initialized_
  /\ ~cc_policy_info_initialized_
  /\ primary_admissions_cert_valid_
  /\ Exited

\* C5: in get-certified, certify_me is invoked only after warm_restart
\* succeeded; if warm_restart fails certify_me is never invoked and the run
\* fails; the run succeeds only if both succeeded, warm_restart first.
C5_CertifyOnlyAfterWarmRestart ==
  operation = "get-certified" =>
    /\ Called("certify_me") =>
         /\ Succeeded("warm_restart")
         /\ Preceded("warm_restart", "certify_me")
    /\ Failed("warm_restart") =>
         /\ Count("certify_me") = 0
         /\ Exited => ExitCode = 1
    /\ (Exited /\ ExitCode = 0) =>
         /\ Succeeded("warm_restart")
         /\ Succeeded("certify_me")
         /\ Before("warm_restart", "certify_me")
    /\ (Exited /\ Failed("certify_me")) => ExitCode = 1

\* warm_restart failed in get-certified and the process has exited
C5_Witness ==
  /\ operation = "get-certified"
  /\ Failed("warm_restart")
  /\ Exited

\* C6: in the server flow, if admission_cert_valid is false after
\* warm_restart, server_dispatch is never called, the server session handler
\* is never invoked, and the exit code is non-zero.
C6_ServerNeedsAdmissionsCert ==
  (operation = ServerOp /\ Succeeded("warm_restart")
     /\ ~primary_admissions_cert_valid_) =>
    /\ ~Called("server_dispatch")
    /\ ~Called("server_application")
    /\ pc # "listening"
    /\ Exited => ExitCode # 0

\* the server flow ended after warm_restart left the admission cert invalid
C6_Witness ==
  /\ operation = ServerOp
  /\ Succeeded("warm_restart")
  /\ ~primary_admissions_cert_valid_
  /\ Exited

\* C7: on every exit path after the trust manager was created,
\* clear_sensitive_data is invoked before the process terminates.
C7_ClearedOnEveryExit ==
  (Exited /\ trust_mgr # "null") => Called("clear_sensitive_data")

\* C8: the exit code is 0 exactly when the selected operation completed with
\* every step succeeding or the operation value is empty, and is 1 whenever a
\* step of the selected operation failed.
C8_ExitCodeReflectsOutcome ==
  Exited =>
    /\ ExitCode = 0 <=> (operation = "" \/ OperationSucceeded)
    /\ StepFailed => ExitCode = 1

\* C9: the client session handler reports failure if and only if the read
\* returned a negative length or the received content differs from the
\* expected server reply.
C9_ClientFailsIffBadReply ==
  client_result # <<>> =>
    (client_result[1] = FALSE <=> (n < 0 \/ out # ServerReply))

\* C10: a channel opened by the client flow is closed exactly once on every
\* session outcome, before the session result is returned and before the
\* process exits; no channel is closed twice and none is closed unopened.
C10_ClientChannelClosedOnce ==
  /\ Count("client.close") <= 1
  /\ Called("client.close") => Succeeded("init_client_ssl")
  /\ client_result # <<>> =>
       /\ Count("client.close") = 1
       /\ channel = "closed"
  /\ (Exited /\ Succeeded("init_client_ssl")) =>
       /\ Count("client.close") = 1
       /\ channel = "closed"

\* the session ended on a content mismatch (the read itself succeeded) and
\* the process has exited
C10_Witness ==
  /\ client_result = <<FALSE>>
  /\ n >= 0
  /\ Count("client.close") = 1
  /\ Exited

\* the calls of the server session handler, in the order of one session
ServerSessionCalls ==
  <<"server_application", "server.read", "server.write", "server.close">>

IsServerSessionCall(e) ==
  \E k \in DOMAIN ServerSessionCalls : e.call = ServerSessionCalls[k]

\* the server-session part of the trace
ServerTrace == SelectSeq(trace, IsServerSessionCall)

\* C11: every invocation of the server session handler performs exactly one
\* read, then one write of the fixed server reply, then one close, in that
\* order, whatever the read returned; it reports no failure to its caller
\* (the run goes back to listening with ret still 0).
C11_ServerSessionReadWriteClose ==
  /\ \A i \in DOMAIN ServerTrace :
       ServerTrace[i].call = ServerSessionCalls[((i - 1) % 4) + 1]
  /\ Count("server_application") = sessions
  /\ pc = "listening" =>
       /\ Count("server.read") = sessions
       /\ Count("server.write") = sessions
       /\ Count("server.close") = sessions
       /\ ret = 0
       /\ sessions > 0 => (sent = ServerReply /\ nc = "closed")
  /\ pc = "server_close" => sent = ServerReply
  /\ Called("server_application") => ~Exited

\* a session whose read failed has been served to its end
C11_Witness ==
  /\ pc = "listening"
  /\ Failed("server.read")
  /\ Count("server.close") = sessions

ServerSessionPcs == {"server_read", "server_write", "server_close"}

\* C12: in the server flow, once listening has started, a failed read or
\* write inside a session does not end the process or the listen loop: the
\* session's channel is closed, the server is back in LISTENING and can
\* accept the next connection; at most one session is in progress.
C12_ServerSurvivesSessionFailure ==
  (operation = ServerOp /\ Succeeded("server_dispatch")) =>
    /\ ~Exited
    /\ pc \in {"listening"} \cup ServerSessionPcs
    /\ Count("server_application") - Count("server.close")
         = (IF pc \in ServerSessionPcs THEN 1 ELSE 0)
    /\ pc \in ServerSessionPcs <=> nc = "open"
    /\ (pc = "listening" /\ sessions < MaxSessions) => ENABLED Accept

\* after a session with a failed read or write, a further session was
\* accepted and served
C12_Witness ==
  /\ pc = "listening"
  /\ \E i \in DOMAIN trace :
       /\ trace[i].call \in {"server.read", "server.write"}
       /\ ~trace[i].ok
       /\ \E j \in (i + 1)..Len(trace) : trace[j].call = "server_application"
  /\ sessions >= 2

ChannelCalls ==
  {"client_application", "client.write", "client.read", "client.close",
   "server_application", "server.read", "server.write", "server.close"}

\* C13: nothing is retried: each of cold_init, warm_restart, certify_me,
\* init_client_ssl, server_dispatch is invoked at most once per run, and after
\* one of them returned failure no further lifecycle or channel call is made.
C13_NoRetry ==
  /\ \A c \in LifecycleAndChannelCalls : Count(c) <= 1
  /\ \A i \in DOMAIN trace :
       (trace[i].call \in LifecycleAndChannelCalls /\ ~trace[i].ok) =>
         \A j \in (i + 1)..Len(trace) :
           trace[j].call \notin LifecycleAndChannelCalls \cup ChannelCalls

\* cold_init failed and the run went on to its end
C13_Witness ==
  /\ Failed("cold_init")
  /\ Exited
  /\ Count("cold_init") = 1

\* the calls of the client session handler, in order
ClientSessionCalls ==
  <<"client_application", "client.write", "client.read", "client.close">>

IsClientSessionCall(e) ==
  \E k \in DOMAIN ClientSessionCalls : e.call = ClientSessionCalls[k]

ClientTrace == SelectSeq(trace, IsClientSessionCall)

\* C15: the client session handler performs exactly one write, then exactly
\* one read, then closes the channel; no read or write happens on the
\* channel after it was closed.
C15_ClientWriteReadClose ==
  /\ Len(ClientTrace) <= 4
  /\ \A i \in DOMAIN ClientTrace : ClientTrace[i].call = ClientSessionCalls[i]
  /\ client_result # <<>> => Len(ClientTrace) = 4
  /\ channel = "closed" => pc \notin {"client_write", "client_read"}
  /\ \A i \in DOMAIN trace :
       trace[i].call \in {"client.write", "client.read"} =>
         \A j \in 1..(i - 1) : trace[j].call # "client.close"

\* the write failed and the handler still read once and closed
C15_Witness ==
  /\ wrote < 0
  /\ client_result # <<>>
  /\ Count("client.read") = 1
  /\ channel = "closed"

\* C16: in the client flow, if init_client_ssl fails the client session
\* handler is never invoked (no write, no read) and the exit code is 1; the
\* handler is invoked only after a successful open.
C16_NoSessionWithoutOpen ==
  /\ Failed("init_client_ssl") =>
       /\ ~Called("client_application")
       /\ ~Called("client.write")
       /\ ~Called("client.read")
       /\ channel = "unopened"
       /\ Exited => ExitCode = 1
  /\ \A j \in DOMAIN trace :
       trace[j].call = "client_application" =>
         \E i \in 1..(j - 1) : trace[i] = Event("init_client_ssl", TRUE)

\* the channel open failed and the process has exited
C16_Witness ==
  /\ operation = ClientOp
  /\ Failed("init_client_ssl")
  /\ Exited

\* C17: the server precondition is admission-cert-valid only: when
\* warm_restart succeeded and the admission cert is valid, server_dispatch is
\* invoked whatever the keys and policy flags are, and these two flags are
\* not read.
C17_ServerChecksAdmissionsCertOnly ==
  operation = ServerOp =>
    /\ (/\ Succeeded("warm_restart")
        /\ primary_admissions_cert_valid_
        /\ pc \notin {"server_check_admissions_cert", "server_dispatch"})
         => Called("server_dispatch")
    /\ ~Called("read cc_auth_key_initialized_")
    /\ ~Called("read cc_policy_info_initialized_")

\* the server listens with neither keys nor policy initialized
C17_Witness ==
  /\ operation = ServerOp
  /\ ~cc_auth_key_initialized_
  /\ ~cc_policy_info_initialized_
  /\ primary_admissions_cert_valid_
  /\ Succeeded("server_dispatch")

\* the calls each flow may make besides init_policy_key, initialize_enclave
\* and clear_sensitive_data
FlowCalls(op) ==
  IF op = "cold-init" THEN {"cold_init"}
  ELSE IF op = "get-certified" THEN {"warm_restart", "certify_me"}
  ELSE IF op = ClientOp
    THEN {"warm_restart", "init_client_ssl", "client_application",
          "client.write", "client.read", "client.close"} \cup FlagReads
  ELSE IF op = ServerOp
    THEN {"warm_restart", "server_dispatch", "server_application",
          "server.read", "server.write", "server.close"} \cup FlagReads
  ELSE {}

StartupAndExitCalls ==
  {"init_policy_key", "initialize_enclave", "clear_sensitive_data"}

C19_StartupBeforeDispatch ==
  /\ operation = "" =>
       (~Called("init_policy_key") /\ ~Called("initialize_enclave"))
  /\ Count("init_policy_key") <= 1
  /\ Count("initialize_enclave") <= 1
  /\ \A j \in DOMAIN trace :
       trace[j].call = "initialize_enclave" =>
         \E i \in 1..(j - 1) : trace[i] = Event("init_policy_key", TRUE)
  /\ (operation # "" /\ pc \notin {"main", "init_policy_key"}) =>
       Called("init_policy_key")
  /\ pc \notin {"main", "init_policy_key", "initialize_enclave", "exited"} =>
       (Succeeded("init_policy_key") /\ Succeeded("initialize_enclave"))
  /\ \A j \in DOMAIN trace :
       trace[j].call \in LifecycleAndChannelCalls =>
         \E i \in 1..(j - 1) : trace[i] = Event("initialize_enclave", TRUE)
  /\ (Failed("init_policy_key") \/ Failed("initialize_enclave")) =>
       /\ Exited
       /\ ExitCode = 1
       /\ \A c \in LifecycleAndChannelCalls : ~Called(c)

\* initialize_enclave failed after init_policy_key succeeded
C19_Witness ==
  /\ Succeeded("init_policy_key")
  /\ Failed("initialize_enclave")
  /\ Exited

CommonPcs ==
  {"main", "init_policy_key", "initialize_enclave", "dispatch", "done",
   "exited"}

\* the positions of main and the handlers that belong to each flow
FlowPcs(op) ==
  IF op \in {"cold-init"} THEN {"cold_init"}
  ELSE IF op \in {"get-certified"} THEN {"get_certified", "certify_me"}
  ELSE IF op \in {ClientOp, "run-as-client"}
    THEN {"run_app_as_client", "client_check_trust_data",
          "client_check_admissions_cert", "init_client_ssl",
          "client_application", "client_write", "client_read",
          "client_close", "client_return", "client_application_check"}
  ELSE IF op \in {ServerOp, "run-as-server"}
    THEN {"run_app_as_server", "server_check_admissions_cert",
          "server_dispatch", "listening"} \cup ServerSessionPcs
  ELSE {}

\* the first collaborator call of each flow
FirstCall(op) == IF op = "cold-init" THEN "cold_init" ELSE "warm_restart"

\* the operation value selects its flow: main is never in the Unknown
\* operation branch nor in another flow, and once past the dispatch the
\* flow's first call has been made
SelectsItsFlow ==
  /\ pc \in CommonPcs \cup FlowPcs(operation)
  /\ (pc \in {"done", "exited"} /\ Succeeded("initialize_enclave")) =>
       Called(FirstCall(operation))

C14_TerminatesUnlessListening ==
  /\ (operation # ServerOp) => <>Exited
  /\ <>(Exited \/ Succeeded("server_dispatch"))
  /\ [](Exited => ~ENABLED Next)
  /\ [](Succeeded("server_dispatch") => (operation = ServerOp /\ ~Exited))

\* the client run reached DONE
C14_Witness ==
  /\ operation = ClientOp
  /\ Exited
  /\ ExitCode = 0

====
